---- MODULE Spec2Model ----
(***************************************************************************)
(* A model of amr_kitchen/header_reader.py: the HeaderData class that      *)
(* parses an AMReX plotfile's Header and per-level Cell_H files, compares  *)
(* two headers, groups cells by binary file, rebuilds boxes from index     *)
(* windows and writes a derived Header.                                    *)
(*                                                                         *)
(* Files are modelled after tokenisation: a Header file is a record of the *)
(* values its lines hold, in the order the constructor reads them.  Floats *)
(* are integer multiples of a fixed length unit (exact arithmetic); the    *)
(* results of boxesfromindexes are exact rationals <<num, den>>.           *)
(* Exceptions are modelled as the name of the exception class raised.      *)
(* Attributes no operation modelled here reads back (version, time,        *)
(* factors, step_numbers, sys_coord, step, box_centers) are left out of    *)
(* the header object.                                                      *)
(***************************************************************************)
EXTENDS Integers, Sequences, FiniteSets, TLC

VARIABLES
    disk,     \* <<plotfile 1, plotfile 2>>: the directories on disk
    args,     \* <<arguments 1, arguments 2>> of the two constructor calls
    self,     \* the HeaderData built from disk[1], or NoHeader
    other,    \* the HeaderData built from disk[2], or NoHeader
    outdir,   \* state of the directory writehdrnewboxes writes to
    pc,       \* the operation that acted last
    raised,   \* the exception the last operation raised, or "none"
    ret,      \* what the last operation returned (or yielded, in order)
    trace     \* per level file read: number of index window lines consumed

vars == <<disk, args, self, other, outdir, pc, raised, ret, trace>>

---------------------------------------------------------------------------
(* Bounds of the model. *)

MaxCells == 2       \* boxes / cells per level in the parse and compare inputs
MaxGroupCells == 3  \* cells per level in the grouping inputs
MaxFile == 3        \* distinct binary file names Cell_D_<k>

(* Program constants. *)

RtolInv == 100000   \* 1 / rtol of numpy.allclose (rtol = 1e-05, atol = 1e-08)
NDimsBox == 3       \* boxesfromindexes hard-codes the axes x, y, z

---------------------------------------------------------------------------
(* Small helpers. *)

Abs(x) == IF x < 0 THEN -x ELSE x

Min(S) == CHOOSE x \in S : \A y \in S : x <= y

Max(S) == CHOOSE x \in S : \A y \in S : x >= y

SeqsUpTo(S, n) == UNION {[1..k -> S] : k \in 0..n}

NoHeader == [ok |-> FALSE]

NoRet == <<>>

Ok(v) == [raised |-> "none", value |-> v]

Raise(e) == [raised |-> e, value |-> NoRet]

---------------------------------------------------------------------------
(* HeaderData.read_boxes, lines 82-120. *)

\* One iteration of the level loop (lines 93-119) on level lv (0-based).
\* readline() past the end of the file gives '', whose split() cannot be
\* unpacked into three names: ValueError.
read_level(hf, lv) ==
    IF lv + 1 > Len(hf.levels) THEN Raise("ValueError")
    ELSE LET b == hf.levels[lv + 1] IN
         IF b.level # lv THEN Raise("AssertionError")
         ELSE Ok([npoints |-> b.n_cells,
                  boxes   |-> SubSeq(b.boxes, 1, b.n_cells),
                  path    |-> b.path])

read_boxes(hf, limit_level) ==
    LET L == 0..limit_level
        bad == {lv \in L : read_level(hf, lv).raised # "none"}
    IN  IF bad # {} THEN Raise(read_level(hf, Min(bad)).raised)
        ELSE Ok([boxes      |-> [l \in 1..(limit_level + 1) |-> read_level(hf, l - 1).value.boxes],
                 npoints    |-> [l \in 1..(limit_level + 1) |-> read_level(hf, l - 1).value.npoints],
                 cell_paths |-> [l \in 1..(limit_level + 1) |-> read_level(hf, l - 1).value.path]])

---------------------------------------------------------------------------
(* HeaderData.read_cell_headers, lines 122-156. *)

\* The body of the loop for one Cell_H file cf of the level whose path is p
\* (lines 128-155); nfields is len(self.fields).  lines_read counts the
\* index window lines consumed from this file.
read_cell_file(cf, p, nfields) ==
    IF cf.nfields # nfields
    THEN [raised |-> "AssertionError", value |-> NoRet, lines_read |-> 0]
    ELSE IF cf.n_cells2 # cf.n_cells
    THEN [raised |-> "AssertionError", value |-> NoRet, lines_read |-> cf.n_cells]
    ELSE [raised |-> "none",
          value  |-> [indexes |-> SubSeq(cf.windows, 1, cf.n_cells),
                      files   |-> [i \in 1..cf.n_cells |-> <<p, cf.ptrs[i].file>>],
                      offsets |-> [i \in 1..cf.n_cells |-> cf.ptrs[i].offset]],
          lines_read |-> cf.n_cells]

\* open(<pfile>/<cell_paths[i]>_H): the level files are stored by path number.
open_cell_file(pf, p, nfields) ==
    IF p + 1 \notin DOMAIN pf.CellH
    THEN [raised |-> "FileNotFoundError", value |-> NoRet, lines_read |-> 0]
    ELSE read_cell_file(pf.CellH[p + 1], p, nfields)

read_cell_headers(pf, cell_paths, limit_level, nfields) ==
    LET L == 0..limit_level
        rd(i) == open_cell_file(pf, cell_paths[i + 1], nfields)
        bad == {i \in L : rd(i).raised # "none"}
        last == IF bad # {} THEN Min(bad) ELSE limit_level
    IN  [raised |-> IF bad # {} THEN rd(Min(bad)).raised ELSE "none",
         value  |-> IF bad # {} THEN NoRet
                    ELSE [l \in 1..(limit_level + 1) |-> rd(l - 1).value],
         lines_read |-> [l \in 1..(last + 1) |-> rd(l - 1).lines_read]]

---------------------------------------------------------------------------
(* HeaderData.__init__, lines 10-54. *)

\* self.fields (lines 20-22): a dict from field name to the index of the
\* last line that holds the name.
fields_dict(hf) ==
    [f \in {hf.names[i] : i \in 1..hf.nvars} |->
        Max({i \in 1..hf.nvars : hf.names[i] = f}) - 1]

\* lines 45-48
limit_of(hf, a) == IF a.limit_given THEN a.limit_level ELSE hf.max_level

HeaderData(pf, a) ==
    LET hf == pf.Header
        fields == fields_dict(hf)
        limit_level == limit_of(hf, a)
        rb == read_boxes(hf, limit_level)
        object(has_cells, cells) ==
            [ok          |-> TRUE,
             nvars       |-> hf.nvars,
             fields      |-> fields,
             ndims       |-> hf.ndims,
             max_level   |-> hf.max_level,
             geo_low     |-> hf.geo_low,
             geo_high    |-> hf.geo_high,
             grid_sizes  |-> [l \in 1..Len(hf.grid_hi) |->
                                [d \in 1..Len(hf.grid_hi[l]) |-> hf.grid_hi[l][d] + 1]],
             dx          |-> SubSeq(hf.dx, 1, hf.max_level + 1),
             limit_level |-> limit_level,
             boxes       |-> rb.value.boxes,
             npoints     |-> rb.value.npoints,
             cell_paths  |-> rb.value.cell_paths,
             has_cells   |-> has_cells,
             cells       |-> cells]
    IN  IF hf.zero # 0
        THEN [raised |-> "AssertionError", value |-> NoHeader, lines_read |-> <<>>]
        ELSE IF rb.raised # "none"
        THEN [raised |-> rb.raised, value |-> NoHeader, lines_read |-> <<>>]
        ELSE IF a.header_only
        THEN [raised |-> "none", value |-> object(FALSE, <<>>), lines_read |-> <<>>]
        ELSE LET rc == read_cell_headers(pf, rb.value.cell_paths, limit_level,
                                         Cardinality(DOMAIN fields)) IN
             IF rc.raised # "none"
             THEN [raised |-> rc.raised, value |-> NoHeader, lines_read |-> rc.lines_read]
             ELSE [raised |-> "none", value |-> object(TRUE, rc.value),
                   lines_read |-> rc.lines_read]

---------------------------------------------------------------------------
(* numpy.allclose as HeaderData.__eq__ uses it, lines 73 and 77. *)

\* numpy.isclose(a, b): |a - b| <= atol + rtol * |b| with atol = 1e-08 and
\* rtol = 1e-05.  For integers, and for floats that are whole multiples of
\* a unit larger than atol, that is 100000 * |a - b| <= |b|.
isclose(a, b) == Abs(a - b) <= Abs(b) \div RtolInv

\* The shape of numpy.array(L) for a list L of blocks of equal shape p x q:
\* (n, p, q), and (0,) for the empty list.
np_shape(L) ==
    IF Len(L) = 0 THEN <<0>> ELSE <<Len(L), Len(L[1]), Len(L[1][1])>>

\* shape s aligned to the right in three dimensions, padded with ones
np_pad(s) == [i \in 1..3 |-> IF i <= 3 - Len(s) THEN 1 ELSE s[i - (3 - Len(s))]]

\* numpy's broadcasting rule: per dimension the extents agree or one is 1
np_broadcastable(s, t) ==
    \A i \in 1..3 : np_pad(s)[i] = np_pad(t)[i] \/ np_pad(s)[i] = 1 \/ np_pad(t)[i] = 1

np_bdim(m, n) == IF m = 1 THEN n ELSE m

\* element (i, j, k) of L broadcast to a larger shape
np_at(L, i, j, k) ==
    LET s == np_shape(L) IN
    L[IF s[1] = 1 THEN 1 ELSE i][IF s[2] = 1 THEN 1 ELSE j][IF s[3] = 1 THEN 1 ELSE k]

\* numpy.allclose(A, B): ValueError when the shapes do not broadcast, else
\* whether all pairs of the broadcast arrays are close (true of no pairs).
np_allclose(A, B) ==
    LET s == np_pad(np_shape(A))
        t == np_pad(np_shape(B))
    IN  IF ~np_broadcastable(np_shape(A), np_shape(B)) THEN Raise("ValueError")
        ELSE Ok(\A i \in 1..np_bdim(s[1], t[1]) :
                \A j \in 1..np_bdim(s[2], t[2]) :
                \A k \in 1..np_bdim(s[3], t[3]) :
                    isclose(np_at(A, i, j, k), np_at(B, i, j, k)))

---------------------------------------------------------------------------
(* HeaderData.__eq__, lines 56-80. *)

\* The loop of lines 72-74 (what = "boxes") or 76-79 (what = "indexes"):
\* the first level that raises or is not close decides.
compare_levels(s, o, what) ==
    LET L == 0..s.limit_level
        cmp(lv) == IF what = "boxes"
                   THEN np_allclose(s.boxes[lv + 1], o.boxes[lv + 1])
                   ELSE np_allclose(s.cells[lv + 1].indexes, o.cells[lv + 1].indexes)
        stop == {lv \in L : cmp(lv).raised # "none" \/ ~cmp(lv).value}
    IN  IF stop = {} THEN Ok(TRUE)
        ELSE IF cmp(Min(stop)).raised # "none" THEN Raise(cmp(Min(stop)).raised)
        ELSE Ok(FALSE)

\* self.cells is set only when header_only is false (lines 53-54)
__eq__(s, o) ==
    IF s.limit_level # o.limit_level THEN Ok(FALSE)
    ELSE LET b == compare_levels(s, o, "boxes") IN
         IF b.raised # "none" \/ ~b.value THEN b
         ELSE IF s.limit_level + 1 <= 0 THEN Ok(TRUE)
         ELSE IF ~s.has_cells \/ ~o.has_cells THEN Raise("AttributeError")
         ELSE compare_levels(s, o, "indexes")

---------------------------------------------------------------------------
(* HeaderData.bybinfile, lines 182-196. *)

\* A binary file path is <<level directory, file name>>; names are numbered
\* in their lexicographic order (Cell_D_00000 < Cell_D_00001 < ...), so the
\* string order numpy sorts by is the order of these pairs.
path_less(p, q) == p[1] < q[1] \/ (p[1] = q[1] /\ p[2] < q[2])

RECURSIVE sorted_seq(_)
sorted_seq(S) ==
    IF S = {} THEN <<>>
    ELSE LET m == CHOOSE x \in S : \A y \in S : x = y \/ path_less(x, y)
         IN  <<m>> \o sorted_seq(S \ {m})

\* a mutation: the distinct elements in the order they first appear
np_unique_first_seen(a) ==
    LET F[i \in 0..Len(a)] ==
            IF i = 0 THEN <<>>
            ELSE IF \E k \in 1..(i - 1) : a[k] = a[i] THEN F[i - 1]
            ELSE Append(F[i - 1], a[i])
    IN  F[Len(a)]

\* numpy.unique(a): the sorted distinct elements of a (line 192)
np_unique(a) == sorted_seq({a[i] : i \in 1..Len(a)})

\* a mutation: the mask skips the first cell of the level
bf_positions_skip_first(bfiles, bf) ==
    LET F[i \in 0..Len(bfiles)] ==
            IF i = 0 THEN <<>>
            ELSE IF bfiles[i] = bf /\ i > 1 THEN Append(F[i - 1], i) ELSE F[i - 1]
    IN  F[Len(bfiles)]

\* box_indexes[bfiles == bf] (line 193): the positions of the cells whose
\* file is bf, ascending (1-based here, 0-based in the code)
bf_positions(bfiles, bf) ==
    LET F[i \in 0..Len(bfiles)] ==
            IF i = 0 THEN <<>>
            ELSE IF bfiles[i] = bf THEN Append(F[i - 1], i) ELSE F[i - 1]
    IN  F[Len(bfiles)]

\* a[idx]: numpy indexing of an array by an array of positions
np_take(a, idx) == [k \in 1..Len(idx) |-> a[idx[k]]]

\* The tuples the generator yields, in order.  bf_indexes is the local of
\* line 193, kept beside each tuple to name the cells the tuple is about.
bybinfile(h, lv) ==
    IF ~h.has_cells THEN Raise("AttributeError")
    ELSE IF lv + 1 \notin DOMAIN h.cells THEN Raise("IndexError")
    ELSE LET bfiles == h.cells[lv + 1].files
             indexes == h.cells[lv + 1].indexes
             offsets == h.cells[lv + 1].offsets
             uniq == np_unique(bfiles)
         IN  Ok([g \in 1..Len(uniq) |->
                    LET bf_indexes == bf_positions(bfiles, uniq[g]) IN
                    [bf         |-> uniq[g],
                     bf_indexes |-> bf_indexes,
                     offsets    |-> np_take(offsets, bf_indexes),
                     indexes    |-> np_take(indexes, bf_indexes)]])

---------------------------------------------------------------------------
(* Exact rational arithmetic for boxesfromindexes: <<num, den>>, den > 0,  *)
(* in lowest terms.                                                        *)

RECURSIVE gcd(_, _)
gcd(a, b) == IF b = 0 THEN a ELSE gcd(b, a % b)

rat(n, d) ==
    LET sn == IF d < 0 THEN -n ELSE n
        sd == Abs(d)
        g  == gcd(Abs(n), sd)
    IN  <<(IF sn < 0 THEN -(Abs(sn) \div g) ELSE sn \div g), sd \div g>>

rint(i) == <<i, 1>>

radd(x, y) == rat(x[1] * y[2] + y[1] * x[2], x[2] * y[2])

rsub(x, y) == rat(x[1] * y[2] - y[1] * x[2], x[2] * y[2])

rmul(x, y) == rat(x[1] * y[1], x[2] * y[2])

rdiv(x, y) == rat(x[1] * y[2], x[2] * y[1])

---------------------------------------------------------------------------
(* HeaderData.boxesfromindexes, lines 216-243. *)

\* numpy.linspace(start, stop, num): num evenly spaced points, both ends
\* included; the single point start when num is 1.
np_linspace(start, stop, num) ==
    [i \in 1..num |->
        IF num = 1 THEN start
        ELSE radd(start, rmul(rint(i - 1), rdiv(rsub(stop, start), rint(num - 1))))]

\* a[k] as Python indexes a sequence: 0-based, negative k counts from the end
py_in_range(a, k) == -Len(a) <= k /\ k < Len(a)

py_at(a, k) == IF k < 0 THEN a[Len(a) + k + 1] ELSE a[k + 1]

\* lines 224-226
xgrid(h, lv) ==
    np_linspace(radd(rint(h.geo_low[1]), rdiv(rint(h.dx[lv + 1][1]), rint(2))),
                rsub(rint(h.geo_high[1]), rdiv(rint(h.dx[lv + 1][1]), rint(2))),
                h.grid_sizes[lv + 1][1])

\* lines 227-229: built from axis 0, as written in the source
ygrid(h, lv) ==
    np_linspace(radd(rint(h.geo_low[1]), rdiv(rint(h.dx[lv + 1][1]), rint(2))),
                rsub(rint(h.geo_high[1]), rdiv(rint(h.dx[lv + 1][1]), rint(2))),
                h.grid_sizes[lv + 1][1])

\* lines 230-232: built from axis 0, as written in the source
zgrid(h, lv) ==
    np_linspace(radd(rint(h.geo_low[1]), rdiv(rint(h.dx[lv + 1][1]), rint(2))),
                rsub(rint(h.geo_high[1]), rdiv(rint(h.dx[lv + 1][1]), rint(2))),
                h.grid_sizes[lv + 1][1])

\* lines 233-235
hdx(h, lv) == rdiv(rint(h.dx[lv + 1][1]), rint(2))

hdy(h, lv) == rdiv(rint(h.dx[lv + 1][2]), rint(2))

hdz(h, lv) == rdiv(rint(h.dx[lv + 1][3]), rint(2))

\* lines 237-240: the box of one index window idx = <<start, stop>>
box_of_index(h, lv, idx) ==
    << <<rsub(py_at(xgrid(h, lv), idx[1][1]), hdx(h, lv)),
         radd(py_at(xgrid(h, lv), idx[2][1]), hdx(h, lv))>>,
       <<rsub(py_at(ygrid(h, lv), idx[1][2]), hdy(h, lv)),
         radd(py_at(ygrid(h, lv), idx[2][2]), hdy(h, lv))>>,
       <<rsub(py_at(zgrid(h, lv), idx[1][3]), hdz(h, lv)),
         radd(py_at(zgrid(h, lv), idx[2][3]), hdz(h, lv))>> >>

\* the subscripts of lines 224-235 exist: level lv has a dx line and a grid
\* size, and the dx line has the three entries [0], [1], [2]
level_subscripts_ok(h, lv) ==
    /\ lv + 1 \in DOMAIN h.dx
    /\ lv + 1 \in DOMAIN h.grid_sizes
    /\ Len(h.geo_low) >= 1 /\ Len(h.geo_high) >= 1
    /\ Len(h.grid_sizes[lv + 1]) >= 1
    /\ Len(h.dx[lv + 1]) >= NDimsBox

\* the subscripts of lines 237-239 exist for window idx
index_subscripts_ok(h, lv, idx) ==
    /\ Len(idx[1]) >= NDimsBox /\ Len(idx[2]) >= NDimsBox
    /\ \A a \in 1..NDimsBox :
        /\ py_in_range(xgrid(h, lv), idx[1][a])
        /\ py_in_range(xgrid(h, lv), idx[2][a])

boxesfromindexes(h, indexes) ==
    LET L == 0..h.limit_level
        ok(lv) == /\ level_subscripts_ok(h, lv)
                  /\ lv + 1 \in DOMAIN indexes
                  /\ \A i \in 1..Len(indexes[lv + 1]) :
                        index_subscripts_ok(h, lv, indexes[lv + 1][i])
    IN  IF \E lv \in L : ~ok(lv) THEN Raise("IndexError")
        ELSE Ok([l \in 1..(h.limit_level + 1) |->
                    [i \in 1..Len(indexes[l]) |-> box_of_index(h, l - 1, indexes[l][i])]])

---------------------------------------------------------------------------
(* HeaderData.writehdrnewboxes, lines 245-307.                             *)
(* The output directory pfdir is in one of four states:                    *)
(*   "absent"        it does not exist                                     *)
(*   "empty"         it exists and holds no Header                         *)
(*   "header_file"   it holds a file named Header                          *)
(*   "header_dir_w"  it holds a directory Header that holds a file w       *)

OutDirStates == {"absent", "empty", "header_file", "header_dir_w"}

\* lines 249-250: os.makedirs(pfdir) when pfdir is not listed
makedirs(dir) == IF dir = "absent" THEN "empty" ELSE dir

\* line 252: open(os.path.join(pfdir, 'Header', 'w')) opens the path
\* <pfdir>/Header/w in the default mode, for reading
open_header_w(dir) ==
    IF dir = "header_dir_w" THEN "none"
    ELSE IF dir = "header_file" THEN "NotADirectoryError"
    ELSE "FileNotFoundError"

\* line 254: the first hfile.write on a file opened for reading
write_version == "UnsupportedOperation"

\* The call as a whole: the directory it leaves, the exception it raises and
\* whether a file <pfdir>/Header was written.
writehdrnewboxes(h, dir, boxes, fields) ==
    LET made == makedirs(dir) IN
    [outdir  |-> made,
     raised  |-> IF open_header_w(made) # "none" THEN open_header_w(made)
                 ELSE write_version,
     written |-> FALSE]

---------------------------------------------------------------------------
(* Plotfiles on disk: the inputs of the model.                             *)
(* Lengths are in units of 1/16 of the domain edge: the domain [0,1] is    *)
(* [0,16], level 0 has 8 cells of width 2 per axis, level 1 has 16 cells   *)
(* of width 1.                                                             *)

MaxVars == 2        \* field name lines in the Header
MaxLevel == 1       \* max_level recorded in the Header

FieldNames == {"density", "temp"}

NoPlotfile == [Header |-> <<>>, CellH |-> <<>>]

NoArgs == [limit_given |-> FALSE, limit_level |-> 0, header_only |-> FALSE]

\* The box a consistent plotfile records for index window w on a level of
\* cell widths dxl over a domain starting at glo.
BoxOfWindow(w, glo, dxl) ==
    [d \in 1..Len(glo) |-> <<glo[d] + w[1][d] * dxl[d], glo[d] + (w[2][d] + 1) * dxl[d]>>]

Const(ndims, v) == [d \in 1..ndims |-> v]

\* cell width and highest cell index of level lv (0-based) of the unit domain
UnitDx(lv) == IF lv = 0 THEN 2 ELSE 1

UnitHi(lv) == IF lv = 0 THEN 7 ELSE 15

\* The i-th standard window of a level: a slab along the first axis.
StdWindow(ndims, lv, i) ==
    <<[d \in 1..ndims |-> IF d = 1 THEN 2 * (i - 1) ELSE 0],
      [d \in 1..ndims |-> IF d = 1 THEN 2 * i - 1 ELSE UnitHi(lv)]>>

StdBox(ndims, lv, i) ==
    BoxOfWindow(StdWindow(ndims, lv, i), Const(ndims, 0), Const(ndims, UnitDx(lv)))

\* A level block of the Header holding the given boxes.
Block(idx, boxes, path) ==
    [level |-> idx, n_cells |-> Len(boxes), boxes |-> boxes, path |-> path]

\* A Cell_H file holding the given windows and (file, offset) pointers.
CellFile(nfields, windows, n_cells2, ptrs) ==
    [nfields |-> nfields, n_cells |-> Len(windows), windows |-> windows,
     n_cells2 |-> n_cells2, ptrs |-> ptrs]

StdPtrs(n) == [i \in 1..n |-> [file |-> 0, offset |-> 100 * (i - 1)]]

\* A Header over the unit domain.
UnitHeader(names, ndims, max_level, zero, blocks) ==
    [nvars |-> Len(names), names |-> names, ndims |-> ndims, max_level |-> max_level,
     geo_low |-> Const(ndims, 0), geo_high |-> Const(ndims, 16),
     grid_hi |-> [l \in 1..(max_level + 1) |-> Const(ndims, UnitHi(l - 1))],
     dx |-> [l \in 1..(max_level + 1) |-> Const(ndims, UnitDx(l - 1))],
     zero |-> zero, levels |-> blocks]

---------------------------------------------------------------------------
(* Specification Spec: one constructor call on a plotfile whose Header and *)
(* Cell_H files are drawn independently.                                   *)

ParsePlotfile(names, max_level, nblocks, shift, n0, zero, f0, f1, N0, conf) ==
    [Header |->
        UnitHeader(names, 2, max_level, zero,
            [l \in 1..nblocks |->
                Block(IF l = nblocks THEN l - 1 + shift ELSE l - 1,
                      [i \in 1..(IF l = 1 THEN n0 ELSE 1) |-> StdBox(2, l - 1, i)],
                      l - 1)]),
     CellH |->
        [l \in 1..nblocks |->
            LET n == IF l = 1 THEN N0 ELSE 1 IN
            CellFile(IF l = 1 THEN f0 ELSE f1,
                     [i \in 1..n |-> StdWindow(2, l - 1, i)],
                     IF l = 1 THEN n + conf ELSE n,
                     StdPtrs(n))]]

InitParse ==
    /\ \E names \in SeqsUpTo(FieldNames, MaxVars) \ {<<>>},
          max_level \in 0..MaxLevel, extra \in 0..1, shift \in 0..1,
          n0 \in 0..MaxCells, zero \in 0..1,
          f0 \in 1..MaxVars, f1 \in 1..MaxVars,
          N0 \in 0..MaxCells, conf \in 0..1,
          given \in BOOLEAN, limit \in -1..(MaxLevel + 1), header_only \in BOOLEAN :
        /\ (~given => limit = 0)
        /\ disk = <<ParsePlotfile(names, max_level, max_level + 1 + extra, shift,
                                  n0, zero, f0, f1, N0, conf), NoPlotfile>>
        /\ args = <<[limit_given |-> given, limit_level |-> limit,
                     header_only |-> header_only], NoArgs>>
    /\ self = NoHeader
    /\ other = NoHeader
    /\ outdir = "absent"
    /\ pc = "start"
    /\ raised = "none"
    /\ ret = NoRet
    /\ trace = <<>>

\* self = HeaderData(plotfile, limit_level, header_only)
Construct ==
    /\ pc = "start"
    /\ LET r == HeaderData(disk[1], args[1]) IN
        /\ self' = r.value
        /\ raised' = r.raised
        /\ trace' = r.lines_read
    /\ pc' = "constructed"
    /\ UNCHANGED <<disk, args, other, outdir, ret>>

NextParse == Construct

Spec == InitParse /\ [][NextParse]_vars

---------------------------------------------------------------------------
(* Claims about the constructor, under Spec. *)

\* the constructor reached the Cell_H files of a plotfile whose Header parsed
HeaderParsed ==
    /\ disk[1].Header.zero = 0
    /\ read_boxes(disk[1].Header, limit_of(disk[1].Header, args[1])).raised = "none"

\* C1: in every header built with header_only=False, each level 0..limit_level
\* has as many boxes (from the Header) as index windows, files and offsets
\* (from the level's Cell_H file).
C1_ParallelLengths ==
    (pc = "constructed" /\ self.ok /\ self.has_cells) =>
        \A l \in 1..(self.limit_level + 1) :
            /\ Len(self.boxes[l]) = Len(self.cells[l].indexes)
            /\ Len(self.boxes[l]) = Len(self.cells[l].files)
            /\ Len(self.boxes[l]) = Len(self.cells[l].offsets)

\* C9: when the field count line of the first Cell_H file that disagrees
\* with the Header's nvars is reached, the constructor raises the assertion
\* error, reads no index window line of that file and builds no header.
C9_SchemaMismatchFailsFast ==
    (pc = "constructed" /\ ~args[1].header_only /\ HeaderParsed) =>
        \A l \in 1..(limit_of(disk[1].Header, args[1]) + 1) :
            ( /\ disk[1].CellH[l].nfields # disk[1].Header.nvars
              /\ \A k \in 1..(l - 1) :
                    /\ disk[1].CellH[k].nfields = disk[1].Header.nvars
                    /\ disk[1].CellH[k].n_cells2 = disk[1].CellH[k].n_cells )
            => /\ raised = "AssertionError"
               /\ self = NoHeader
               /\ Len(trace) = l
               /\ trace[l] = 0

\* C10: every header built has 0 <= limit_level <= max_level (max_level when
\* the caller gives none), exactly limit_level+1 levels and a dx entry for
\* each of them.
C10_LimitLevelInRange ==
    (pc = "constructed" /\ self.ok) =>
        /\ 0 <= self.limit_level
        /\ self.limit_level <= self.max_level
        /\ (~args[1].limit_given => self.limit_level = self.max_level)
        /\ Len(self.boxes) = self.limit_level + 1
        /\ \A l \in 1..(self.limit_level + 1) : l \in DOMAIN self.dx

---------------------------------------------------------------------------
(* Specification SpecEq: two plotfiles are parsed and compared with ==.    *)

\* two boxes of level 0 that are not close, and index windows far along the
\* first axis, where consecutive integers are within rtol of each other
EqBoxes == {StdBox(2, 0, 1), StdBox(2, 0, 2)}

EqWindows ==
    {<<(<<100000, 0>>), (<<100007, 7>>)>>,
     <<(<<100001, 0>>), (<<100007, 7>>)>>}

EqPlotfile(boxes, windows) ==
    [Header |->
        UnitHeader(<<"density">>, 2, 1, 0,
            <<Block(0, boxes, 0), Block(1, <<StdBox(2, 1, 1)>>, 1)>>),
     CellH |->
        <<CellFile(1, windows, Len(windows), StdPtrs(Len(windows))),
          CellFile(1, <<StdWindow(2, 1, 1)>>, 1, StdPtrs(1))>>]

EqInputs ==
    {<<EqPlotfile(b, w), [limit_given |-> g, limit_level |-> 0, header_only |-> h]>> :
        b \in SeqsUpTo(EqBoxes, MaxCells), w \in SeqsUpTo(EqWindows, MaxCells),
        g \in BOOLEAN, h \in BOOLEAN}

InitEq ==
    /\ \E i1 \in EqInputs, i2 \in EqInputs :
        /\ disk = <<i1[1], i2[1]>>
        /\ args = <<i1[2], i2[2]>>
    /\ self = NoHeader
    /\ other = NoHeader
    /\ outdir = "absent"
    /\ pc = "start"
    /\ raised = "none"
    /\ ret = NoRet
    /\ trace = <<>>

\* hdr1 = HeaderData(plt1); hdr2 = HeaderData(plt2)
ConstructBoth ==
    /\ pc = "start"
    /\ LET r1 == HeaderData(disk[1], args[1])
           r2 == HeaderData(disk[2], args[2])
       IN  /\ self' = r1.value
           /\ other' = r2.value
           /\ raised' = IF r1.raised # "none" THEN r1.raised ELSE r2.raised
    /\ pc' = "constructed"
    /\ UNCHANGED <<disk, args, outdir, ret, trace>>

\* a == b for the pair of headers named by which (1 = self, 2 = other);
\* ret is <<the pair, the value returned>>
Equals(which) ==
    /\ pc = "constructed"
    /\ self.ok /\ other.ok
    /\ LET a == IF which[1] = 1 THEN self ELSE other
           b == IF which[2] = 1 THEN self ELSE other
           r == __eq__(a, b)
       IN  /\ raised' = r.raised
           /\ ret' = <<which, r.value>>
    /\ pc' = "eq"
    /\ UNCHANGED <<disk, args, self, other, outdir, trace>>

NextEq ==
    \/ ConstructBoth
    \/ \E which \in {<<1, 2>>, <<2, 1>>, <<1, 1>>, <<2, 2>>} : Equals(which)

SpecEq == InitEq /\ [][NextEq]_vars

---------------------------------------------------------------------------
(* Claims about ==, under SpecEq. *)

\* the two headers of the pair compared last
EqLeft == IF ret[1][1] = 1 THEN self ELSE other

EqRight == IF ret[1][2] = 1 THEN self ELSE other

\* the documented meaning of a == b: same limit_level and, per level, box
\* sequences of equal length with close bounds and index window sequences of
\* equal length with identical integers
SameMesh(a, b) ==
    /\ a.limit_level = b.limit_level
    /\ \A l \in 1..(a.limit_level + 1) :
        /\ Len(a.boxes[l]) = Len(b.boxes[l])
        /\ \A i \in 1..Len(a.boxes[l]) : \A d \in 1..a.ndims : \A e \in 1..2 :
              isclose(a.boxes[l][i][d][e], b.boxes[l][i][d][e])
        /\ a.has_cells /\ b.has_cells
        /\ Len(a.cells[l].indexes) = Len(b.cells[l].indexes)
        /\ a.cells[l].indexes = b.cells[l].indexes

\* C2: a == b returns true exactly when the two headers have the same
\* limit_level, equally long box sequences with close bounds and equally
\* long index window sequences with identical integers, at every level.
C2_EqualsIffSameMesh ==
    pc = "eq" => ((raised = "none" /\ ret[2] = TRUE) <=> SameMesh(EqLeft, EqRight))

\* C3: h == h returns true for every header built.
C3_EqualsReflexive ==
    (pc = "eq" /\ ret[1][1] = ret[1][2]) => (raised = "none" /\ ret[2] = TRUE)

\* C4: a == b never raises; a structural mismatch makes it return false.
C4_EqualsNeverRaises ==
    pc = "eq" =>
        /\ raised = "none"
        /\ ret[2] \in BOOLEAN
        /\ (~SameMesh(EqLeft, EqRight) => ret[2] = FALSE)

---------------------------------------------------------------------------
(* Specification SpecGroup: a plotfile is parsed and the cells of a level  *)
(* are iterated by binary file.                                            *)

GroupOffsets == {0, 4096}

GroupPtrs ==
    SeqsUpTo([file : 1..MaxFile, offset : GroupOffsets], MaxGroupCells)

GroupPlotfile(ptrs) ==
    LET n == Len(ptrs) IN
    [Header |->
        UnitHeader(<<"density">>, 2, 1, 0,
            <<Block(0, [i \in 1..n |-> StdBox(2, 0, i)], 0),
              Block(1, [i \in 1..2 |-> StdBox(2, 1, i)], 1)>>),
     CellH |->
        <<CellFile(1, [i \in 1..n |-> StdWindow(2, 0, i)], n, ptrs),
          CellFile(1, [i \in 1..2 |-> StdWindow(2, 1, i)], 2,
                   <<[file |-> 2, offset |-> 0], [file |-> 1, offset |-> 0]>>)>>]

InitGroup ==
    /\ \E ptrs \in GroupPtrs, header_only \in BOOLEAN :
        /\ disk = <<GroupPlotfile(ptrs), NoPlotfile>>
        /\ args = <<[limit_given |-> FALSE, limit_level |-> 0,
                     header_only |-> header_only], NoArgs>>
    /\ self = NoHeader
    /\ other = NoHeader
    /\ outdir = "absent"
    /\ pc = "start"
    /\ raised = "none"
    /\ ret = NoRet
    /\ trace = <<>>

\* list(self.bybinfile(lv)); ret is <<lv, the tuples yielded>>
ByBinFile(lv) ==
    /\ pc = "constructed"
    /\ self.ok
    /\ LET r == bybinfile(self, lv) IN
        /\ raised' = r.raised
        /\ ret' = <<lv, r.value>>
    /\ pc' = "bybinfile"
    /\ UNCHANGED <<disk, args, self, other, outdir, trace>>

NextGroup ==
    \/ Construct
    \/ \E lv \in 0..MaxLevel : ByBinFile(lv)

SpecGroup == InitGroup /\ [][NextGroup]_vars

---------------------------------------------------------------------------
(* Claims about bybinfile, under SpecGroup. *)

Grouped == pc = "bybinfile" /\ raised = "none"

GroupCells == self.cells[ret[1] + 1]

\* the slots <<g, k>> of the yielded tuples that hold cell position i
SlotsOf(i) ==
    {s \in UNION {{<<g, k>> : k \in 1..Len(ret[2][g].bf_indexes)} : g \in 1..Len(ret[2])} :
        ret[2][s[1]].bf_indexes[s[2]] = i}

\* position of the first cell backed by file bf
FirstSeen(bf) == Min({i \in 1..Len(GroupCells.files) : GroupCells.files[i] = bf})

\* C5: bybinfile(lv) puts every cell position of the level in exactly one
\* slot of exactly one yielded tuple, the tuple of the cell's own file, with
\* the cell's own offset and index window; no tuple holds a cell of another
\* file.
C5_PartitionsCellsOnce ==
    Grouped =>
        /\ \A i \in 1..Len(GroupCells.files) : Cardinality(SlotsOf(i)) = 1
        /\ \A g \in 1..Len(ret[2]) :
            /\ Len(ret[2][g].offsets) = Len(ret[2][g].bf_indexes)
            /\ Len(ret[2][g].indexes) = Len(ret[2][g].bf_indexes)
            /\ \A k \in 1..Len(ret[2][g].bf_indexes) :
                LET i == ret[2][g].bf_indexes[k] IN
                /\ i \in 1..Len(GroupCells.files)
                /\ GroupCells.files[i] = ret[2][g].bf
                /\ ret[2][g].offsets[k] = GroupCells.offsets[i]
                /\ ret[2][g].indexes[k] = GroupCells.indexes[i]

\* a level with two files whose cells interleave has been grouped
C5_Witness ==
    /\ Grouped
    /\ Len(ret[2]) >= 2
    /\ \E g \in 1..Len(ret[2]) : ret[2][g].bf_indexes = <<1, 3>>

\* C6 as stated: the tuples come in the order in which their files first
\* appear in the level's file sequence.
C6_FirstAppearanceOrder ==
    Grouped =>
        \A g \in 1..Len(ret[2]) : \A h \in 1..Len(ret[2]) :
            FirstSeen(ret[2][g].bf) < FirstSeen(ret[2][h].bf) => g < h

\* C6 as the code has it: bybinfile(lv) yields one tuple per distinct file
\* of the level, in ascending order of file name, wherever in the file
\* sequence each name first appears.
C6_SortedFileOrder ==
    Grouped =>
        /\ {ret[2][g].bf : g \in 1..Len(ret[2])}
              = {GroupCells.files[i] : i \in 1..Len(GroupCells.files)}
        /\ \A g \in 1..Len(ret[2]) : \A h \in 1..Len(ret[2]) :
              g < h => path_less(ret[2][g].bf, ret[2][h].bf)

\* a level whose first cell is not in the file of least name has been grouped
C6_Witness ==
    /\ Grouped
    /\ Len(ret[2]) >= 2
    /\ FirstSeen(ret[2][2].bf) < FirstSeen(ret[2][1].bf)

---------------------------------------------------------------------------
(* Specification SpecGeom: a consistent plotfile of two levels with one    *)
(* box per level is parsed and its boxes are rebuilt from its index        *)
(* windows.  Per axis the domain starts at lo and has n cells of width dx  *)
(* on level 0, and 2n cells of width dx/2 on level 1.                      *)

GeomAxes == {[lo |-> 0, n |-> 8, dx |-> 2],
             [lo |-> 0, n |-> 4, dx |-> 4],
             [lo |-> 4, n |-> 2, dx |-> 6]}

\* per axis: the geometry and the start and stop cell of the window
GeomChoices ==
    {c \in [axis : GeomAxes, start : {0, 1}, stop : {0, 1, 3, 7}] :
        c.start <= c.stop /\ c.stop < c.axis.n}

GeomPlotfile(c) ==
    LET ndims == Len(c)
        glo == [d \in 1..ndims |-> c[d].axis.lo]
        dxl(lv) == [d \in 1..ndims |-> IF lv = 0 THEN c[d].axis.dx ELSE c[d].axis.dx \div 2]
        w == <<[d \in 1..ndims |-> c[d].start], [d \in 1..ndims |-> c[d].stop]>>
    IN
    [Header |->
        [nvars |-> 1, names |-> <<"density">>, ndims |-> ndims, max_level |-> 1,
         geo_low |-> glo,
         geo_high |-> [d \in 1..ndims |-> c[d].axis.lo + c[d].axis.n * c[d].axis.dx],
         grid_hi |-> <<[d \in 1..ndims |-> c[d].axis.n - 1],
                       [d \in 1..ndims |-> 2 * c[d].axis.n - 1]>>,
         dx |-> <<dxl(0), dxl(1)>>,
         zero |-> 0,
         levels |-> <<Block(0, <<BoxOfWindow(w, glo, dxl(0))>>, 0),
                      Block(1, <<BoxOfWindow(w, glo, dxl(1))>>, 1)>>],
     CellH |-> <<CellFile(1, <<w>>, 1, StdPtrs(1)), CellFile(1, <<w>>, 1, StdPtrs(1))>>]

InitGeom ==
    /\ \E ndims \in 2..3 : \E c \in [1..ndims -> GeomChoices] :
        disk = <<GeomPlotfile(c), NoPlotfile>>
    /\ args = <<NoArgs, NoArgs>>
    /\ self = NoHeader
    /\ other = NoHeader
    /\ outdir = "absent"
    /\ pc = "start"
    /\ raised = "none"
    /\ ret = NoRet
    /\ trace = <<>>

\* self.boxesfromindexes([self.cells[lv]['indexes'] for each level])
BoxesFromIndexes ==
    /\ pc = "constructed"
    /\ self.ok /\ self.has_cells
    /\ LET r == boxesfromindexes(self, [l \in 1..Len(self.cells) |-> self.cells[l].indexes]) IN
        /\ raised' = r.raised
        /\ ret' = r.value
    /\ pc' = "boxes"
    /\ UNCHANGED <<disk, args, self, other, outdir, trace>>

NextGeom ==
    \/ Construct
    \/ BoxesFromIndexes

SpecGeom == InitGeom /\ [][NextGeom]_vars

---------------------------------------------------------------------------
(* Claims about boxesfromindexes, under SpecGeom. *)

\* C7: boxesfromindexes of the parsed index windows returns, for every
\* level, window and axis a of the plotfile, the bounds
\* geo_low[a] + start[a]*dx[l][a] and geo_low[a] + (stop[a]+1)*dx[l][a],
\* which are the bounds of the box parsed from the Header; in 2D too.
C7_ReconstructsParsedBoxes ==
    pc = "boxes" =>
        /\ raised = "none"
        /\ \A l \in 1..(self.limit_level + 1) :
            /\ Len(ret[l]) = Len(self.boxes[l])
            /\ \A i \in 1..Len(self.boxes[l]) : \A a \in 1..self.ndims :
                LET w == self.cells[l].indexes[i] IN
                /\ ret[l][i][a][1] = rint(self.geo_low[a] + w[1][a] * self.dx[l][a])
                /\ ret[l][i][a][2] = rint(self.geo_low[a] + (w[2][a] + 1) * self.dx[l][a])
                /\ ret[l][i][a][1] = rint(self.boxes[l][i][a][1])
                /\ ret[l][i][a][2] = rint(self.boxes[l][i][a][2])

---------------------------------------------------------------------------
(* Specification SpecWrite: a plotfile is parsed, its header is written to *)
(* an output directory with a caller-supplied box set and field list, and  *)
(* the output directory is parsed in turn.  disk[2] is the output          *)
(* directory: it holds a Header only in the state "header_file", an older  *)
(* file that is not the work of this call.                                 *)

StaleOutput == EqPlotfile(<<>>, <<>>)

InitWrite ==
    /\ \E b \in SeqsUpTo(EqBoxes, MaxCells), header_only \in BOOLEAN :
        /\ disk = <<EqPlotfile(b, [i \in 1..Len(b) |-> StdWindow(2, 0, i)]), StaleOutput>>
        /\ args = <<[limit_given |-> FALSE, limit_level |-> 0,
                     header_only |-> header_only],
                    [limit_given |-> FALSE, limit_level |-> 0, header_only |-> TRUE]>>
    /\ outdir \in OutDirStates
    /\ self = NoHeader
    /\ other = NoHeader
    /\ pc = "start"
    /\ raised = "none"
    /\ ret = NoRet
    /\ trace = <<>>

\* the box sets a caller supplies: the header's own, or the first box of
\* every level that has one
FirstBoxes(h) ==
    [l \in 1..Len(h.boxes) |-> IF Len(h.boxes[l]) = 0 THEN <<>> ELSE <<h.boxes[l][1]>>]

\* self.writehdrnewboxes(pfdir, boxes, fields); ret is what was supplied
\* and whether a Header was written
WriteHdrNewBoxes ==
    /\ pc = "constructed"
    /\ self.ok
    /\ \E boxes \in {self.boxes, FirstBoxes(self)},
          fields \in {<<"density">>, <<>>} :
        LET r == writehdrnewboxes(self, outdir, boxes, fields) IN
        /\ outdir' = r.outdir
        /\ raised' = r.raised
        /\ ret' = [boxes |-> boxes, fields |-> fields, written |-> r.written]
    /\ pc' = "written"
    /\ UNCHANGED <<disk, args, self, other, trace>>

\* other = HeaderData(pfdir, header_only=True) on the output directory
Reparse ==
    /\ pc = "written"
    /\ IF outdir = "header_file"
       THEN LET r == HeaderData(disk[2], args[2]) IN
            /\ other' = r.value
            /\ raised' = r.raised
       ELSE /\ other' = NoHeader
            /\ raised' = IF outdir = "header_dir_w" THEN "IsADirectoryError"
                         ELSE "FileNotFoundError"
    /\ pc' = "reparsed"
    /\ UNCHANGED <<disk, args, self, outdir, ret, trace>>

NextWrite ==
    \/ Construct
    \/ WriteHdrNewBoxes
    \/ Reparse

SpecWrite == InitWrite /\ [][NextWrite]_vars

---------------------------------------------------------------------------
(* Claims about writehdrnewboxes, under SpecWrite. *)

\* C8: writing a header with a supplied box set completes without error and
\* leaves a Header whose parse has the same geo_low, geo_high, grid_sizes
\* and dx and, per level, exactly the supplied boxes.
C8_WriteRoundTrips ==
    /\ pc = "written" => (raised = "none" /\ ret.written)
    /\ pc = "reparsed" =>
        /\ raised = "none"
        /\ ret.written
        /\ other.ok
        /\ other.geo_low = self.geo_low
        /\ other.geo_high = self.geo_high
        /\ other.grid_sizes = self.grid_sizes
        /\ other.dx = self.dx
        /\ other.boxes = ret.boxes

====
